---- MODULE Spec2Model ----
(***************************************************************************)
(* Model of platform/api/app.py: the scan orchestration REST API.          *)
(*                                                                         *)
(* State is the filesystem under UPLOAD_DIR and RESULTS_DIR, the process   *)
(* environment (os.environ, shared by all request threads), and the        *)
(* position and locals of every request thread running execute_scan.       *)
(*                                                                         *)
(* File names are sequences of tokens: runs of letters and the separator   *)
(* characters "." and "-", so that endswith, rsplit('.') and split('-')    *)
(* are computed on the name as the code computes them.                     *)
(***************************************************************************)
EXTENDS Integers, Sequences, FiniteSets, TLC

\* ------------------------------------------------------------------ bounds
MaxScans == 2      \* scan ids uuid4 can return in one run of the model
MaxThreads == 2    \* request threads serving execute_scan concurrently
MaxExecs == 2      \* execute requests accepted in one run of the model

ScanIds == 1..MaxScans
Threads == 1..MaxThreads

\* Python's None, and "no such file"; records so that they compare with documents
None == [py |-> "None"]
Absent == [py |-> "absent"]
NoEnv == 0         \* os.environ has no such key
\* a local variable of a function that has not been assigned yet
Unbound == [py |-> "unbound"]

\* ------------------------------------------------------------ file names
Range(f) == {f[i] : i \in DOMAIN f}

\* str.lower() on an extension token
Lower(tok) ==
    CASE tok = "PY" -> "py"
      [] tok = "ZIP" -> "zip"
      [] OTHER -> tok

\* index of the last "." token of a name, 0 when there is none
LastDot(name) ==
    IF \E i \in DOMAIN name : name[i] = "."
    THEN CHOOSE i \in DOMAIN name : name[i] = "." /\ \A j \in DOMAIN name : name[j] = "." => j <= i
    ELSE 0

\* filename.rsplit('.', 1)[1]
RsplitDot1(name) == SubSeq(name, LastDot(name) + 1, Len(name))

\* f.endswith(('.json', '.sarif'))
EndsWithResultExt(name) ==
    /\ Len(name) >= 2
    /\ name[Len(name) - 1] = "."
    /\ name[Len(name)] \in {"json", "sarif"}

ALLOWED_EXTENSIONS ==
    {"zip", "json", "txt", "py", "js", "java", "cpp", "c", "go", "cs", "ts", "tsx", "jsx"}

allowed_file(filename) ==
    /\ "." \in Range(filename)
    /\ Len(RsplitDot1(filename)) = 1
    /\ Lower(RsplitDot1(filename)[1]) \in ALLOWED_EXTENSIONS

\* werkzeug secure_filename on names without path separators: leading dots are stripped
RECURSIVE secure_filename(_)
secure_filename(filename) ==
    IF filename # <<>> /\ Head(filename) = "."
    THEN secure_filename(Tail(filename))
    ELSE filename

\* ------------------------------------------------- repository inspection
\* a staged tree is a set of paths [dir, name]; dir <<>> is the root of the tree
Root == <<>>

dep_patterns ==
    << <<"package", ".", "json">>, <<"package", "-", "lock", ".", "json">>,
       <<"yarn", ".", "lock">>, <<"pnpm", "-", "lock", ".", "yaml">>,
       <<"requirements", ".", "txt">>, <<"Pipfile", ".", "lock">>, <<"poetry", ".", "lock">>,
       <<"pom", ".", "xml">>, <<"build", ".", "gradle">>, <<"gradle", ".", "lockfile">>,
       <<"go", ".", "mod">>, <<"go", ".", "sum">>,
       <<"Cargo", ".", "toml">>, <<"Cargo", ".", "lock">>,
       <<"Gemfile">>, <<"Gemfile", ".", "lock">>,
       <<"composer", ".", "lock">> >>

lang_extensions ==
    << [lang |-> "java", exts |-> {"java"}],
       [lang |-> "cpp", exts |-> {"cpp", "c", "h", "hpp"}],
       [lang |-> "go", exts |-> {"go"}],
       [lang |-> "javascript", exts |-> {"js", "jsx", "ts", "tsx"}],
       [lang |-> "python", exts |-> {"py"}],
       [lang |-> "csharp", exts |-> {"cs"}] >>

\* repo_path.rglob(pattern): the paths of the tree whose name is the pattern
Rglob(tree, pattern) == {p \in tree : p.name = pattern}

\* the path rglob yields first: entries of the directory itself before those below it
FirstMatch(matches) ==
    IF \E p \in matches : p.dir = Root
    THEN CHOOSE p \in matches : p.dir = Root
    ELSE CHOOSE p \in matches : TRUE

\* the loop of lines 84-88 over dep_patterns[i..], from the accumulated state
RECURSIVE DepLoop(_, _, _)
DepLoop(tree, i, detected) ==
    IF i > Len(dep_patterns) THEN detected
    ELSE IF Rglob(tree, dep_patterns[i]) = {}
         THEN DepLoop(tree, i + 1, detected)
         ELSE DepLoop(tree, i + 1,
                 [detected EXCEPT
                    !.dependency_files = Append(@, FirstMatch(Rglob(tree, dep_patterns[i]))),
                    !.has_dependencies = TRUE])

\* the loop of lines 100-104 over lang_extensions[i..]
RECURSIVE LangLoop(_, _, _)
LangLoop(tree, i, langs) ==
    IF i > Len(lang_extensions) THEN langs
    ELSE IF \E p \in tree : /\ Len(p.name) >= 2
                            /\ p.name[Len(p.name) - 1] = "."
                            /\ p.name[Len(p.name)] \in lang_extensions[i].exts
         THEN LangLoop(tree, i + 1, Append(langs, lang_extensions[i].lang))
         ELSE LangLoop(tree, i + 1, langs)

inspect_repository(tree) ==
    LET detected0 == [languages |-> <<>>,
                      has_dockerfile |->
                          \E p \in tree : /\ p.dir = Root
                                          /\ p.name \in {<<"Dockerfile">>,
                                                         <<"docker", "-", "compose", ".", "yml">>},
                      has_dependencies |-> FALSE,
                      dependency_files |-> <<>>]
        detected1 == DepLoop(tree, 1, detected0)
    IN  [detected1 EXCEPT !.languages = LangLoop(tree, 1, <<>>)]

\* ------------------------------------------------------- configuration
\* truth value of a parsed JSON document in `if custom_config:`
Truthy(doc) ==
    CASE doc.py = "None" -> FALSE
      [] doc.py = "dict" -> doc.items # {}
      [] OTHER -> TRUE

\* json.loads(request.form['config']): the document, or the JSONDecodeError
json_loads(text) ==
    CASE text = "{}" -> [py |-> "dict", items |-> {}]
      [] text = "{\"scanners\": {}}" -> [py |-> "dict", items |-> {"scanners"}]
      [] OTHER -> [py |-> "JSONDecodeError"]

\* the toggles read the wrong inspection flag
generate_scan_config_swapped(upload_type, target_path, inspection, custom_config) ==
    IF Truthy(custom_config) THEN custom_config
    ELSE
      [py |-> "dict",
       items |-> {"target", "scan_scope", "auto_detect", "scanners", "output"},
       target |-> [type |-> upload_type, path |-> target_path],
       scan_scope |-> [type |-> IF upload_type = "repository" THEN "full" ELSE "single_file",
                       paths |-> <<target_path>>,
                       single_file |-> IF upload_type = "file" THEN target_path ELSE None],
       auto_detect |-> TRUE,
       scanners |-> [semgrep |-> [enabled |-> TRUE],
                     codeql |-> [enabled |-> TRUE],
                     gitleaks |-> [enabled |-> TRUE],
                     osv_scanner |-> [enabled |-> IF inspection # None
                                                  THEN inspection.has_dockerfile ELSE TRUE],
                     trivy |-> [enabled |-> IF inspection # None
                                            THEN inspection.has_dependencies ELSE TRUE],
                     syft |-> [enabled |-> FALSE],
                     noir |-> [enabled |-> FALSE]],
       output |-> [formats |-> <<"json", "sarif">>, storage |-> "local", retention_days |-> 30]]

generate_scan_config(upload_type, target_path, inspection, custom_config) ==
    IF Truthy(custom_config) THEN custom_config
    ELSE
      [py |-> "dict",
       items |-> {"target", "scan_scope", "auto_detect", "scanners", "output"},
       target |-> [type |-> upload_type, path |-> target_path],
       scan_scope |-> [type |-> IF upload_type = "repository" THEN "full" ELSE "single_file",
                       paths |-> <<target_path>>,
                       single_file |-> IF upload_type = "file" THEN target_path ELSE None],
       auto_detect |-> TRUE,
       scanners |-> [semgrep |-> [enabled |-> TRUE],
                     codeql |-> [enabled |-> TRUE],
                     gitleaks |-> [enabled |-> TRUE],
                     osv_scanner |-> [enabled |-> IF inspection # None
                                                  THEN inspection.has_dependencies ELSE TRUE],
                     trivy |-> [enabled |-> IF inspection # None
                                            THEN inspection.has_dockerfile ELSE TRUE],
                     syft |-> [enabled |-> FALSE],
                     noir |-> [enabled |-> FALSE]],
       output |-> [formats |-> <<"json", "sarif">>, storage |-> "local", retention_days |-> 30]]

\* ------------------------------------------------------------------ state
VARIABLES
    minted,       \* scan ids uuid4 has returned
    stagedDirs,   \* scan ids s for which UPLOAD_DIR/s exists
    zipFiles,     \* scan ids s for which UPLOAD_DIR/s.zip exists
    configFile,   \* content of UPLOAD_DIR/s/scan-config.json, or Absent
    upload,       \* the latest upload request and its response
    resultsDirs,  \* scan ids s for which RESULTS_DIR/s exists
    artifacts,    \* files of RESULTS_DIR/s other than summary.json
    summaryFile,  \* content of RESULTS_DIR/s/summary.json, or Absent
    environ,      \* os.environ of the server process: RESULTS_DIR and SCAN_ID
    thr,          \* per request thread: position in execute_scan, its locals, and the
                  \* names of the files the child processes of the request have written
    nexec,        \* execute requests accepted so far
    executed,     \* scan ids for which an execute request found a configuration
    strays,       \* entries of RESULTS_DIR that are not directories
    listing,      \* the response of the latest list_scans request
    insp          \* inspect_repository in progress: tree, position in dep_patterns, detected

vars == <<minted, stagedDirs, zipFiles, configFile, upload,
          resultsDirs, artifacts, summaryFile, environ, thr, nexec, executed,
          strays, listing, insp>>

uploadVars == <<minted, stagedDirs, zipFiles, configFile, upload>>
resultVars == <<resultsDirs, artifacts, summaryFile>>
readVars == <<strays, listing, insp>>

IdleThread ==
    [pc |-> "idle", scan_id |-> 0, config |-> None, env |-> None, returncode |-> None,
     summary_path |-> NoEnv, status |-> Unbound, wrote |-> {}, resp |-> None]

Init ==
    /\ minted = {}
    /\ stagedDirs = {}
    /\ zipFiles = {}
    /\ configFile = [s \in ScanIds |-> Absent]
    /\ upload = [form |-> None, resp |-> None]
    /\ resultsDirs = {}
    /\ artifacts = [s \in ScanIds |-> {}]
    /\ summaryFile = [s \in ScanIds |-> Absent]
    /\ environ = [RESULTS_DIR |-> NoEnv, SCAN_ID |-> NoEnv]
    /\ thr = [t \in Threads |-> IdleThread]
    /\ nexec = 0
    /\ executed = {}
    /\ strays = {}
    /\ listing = None
    /\ insp = None

\* ----------------------------------------------------------------- upload
\* 'file' not in request.files
NoFile == <<"no file part">>

\* request.form.get('type', 'file')
FormType(form) == IF form.type = "absent" THEN "file" ELSE form.type

\* the content staged under UPLOAD_DIR/scan_id by a request that gets that far
StagedTree(form) ==
    IF FormType(form) \in {"repository", "zip"} THEN form.tree
    ELSE {[dir |-> Root, name |-> secure_filename(form.file)]}

\* jsonify(...), status of the upload handler
Rejected(form, code, error) == [form |-> form, resp |-> [code |-> code, error |-> error]]

\* lines 196-221: inspection, custom config, generated configuration, response
UploadFinish(scan_id, form, upload_type, target_path) ==
    LET inspection == IF upload_type \in {"repository", "zip"}
                      THEN inspect_repository(form.tree) ELSE None
        custom_config == IF form.config = "absent" THEN None ELSE json_loads(form.config)
        config == generate_scan_config(upload_type, target_path, inspection, custom_config)
    IN  IF custom_config.py = "JSONDecodeError"
        THEN /\ upload' = Rejected(form, 400, "Invalid JSON config")
             /\ UNCHANGED configFile
        ELSE /\ configFile' = [configFile EXCEPT ![scan_id] = config]
             /\ upload' = [form |-> form,
                           resp |-> [code |-> 201, scan_id |-> scan_id, status |-> "uploaded",
                                     target_path |-> target_path, config |-> config,
                                     inspection |-> inspection]]

\* POST /api/v1/scan/upload
upload_scan(scan_id, form) ==
    LET upload_type == FormType(form)
        target_dir == [dir |-> scan_id, file |-> <<>>]
    IN
    /\ scan_id \in ScanIds \ minted
    /\ minted' = minted \cup {scan_id}
    /\ UNCHANGED <<resultVars, environ, thr, nexec, executed, readVars>>
    /\ IF upload_type = "repository" THEN
          IF form.repository_url = "absent" \/ form.repository_url = ""
          THEN /\ upload' = Rejected(form, 400, "repository_url is required")
               /\ UNCHANGED <<stagedDirs, zipFiles, configFile>>
          ELSE IF ~form.staging_ok
          THEN \* clone_repository raises
               /\ upload' = Rejected(form, 500, "Failed to clone repository")
               /\ UNCHANGED <<stagedDirs, zipFiles, configFile>>
          ELSE /\ stagedDirs' = stagedDirs \cup {scan_id}
               /\ UNCHANGED zipFiles
               /\ UploadFinish(scan_id, form, upload_type, target_dir)
       ELSE IF upload_type = "zip" THEN
          IF form.file = NoFile
          THEN /\ upload' = Rejected(form, 400, "No file provided")
               /\ UNCHANGED <<stagedDirs, zipFiles, configFile>>
          ELSE IF form.file = <<>>
          THEN /\ upload' = Rejected(form, 400, "No file selected")
               /\ UNCHANGED <<stagedDirs, zipFiles, configFile>>
          ELSE /\ zipFiles' = zipFiles \cup {scan_id}
               /\ stagedDirs' = stagedDirs \cup {scan_id}
               /\ IF ~form.staging_ok
                  THEN \* extract_zip raises
                       /\ upload' = Rejected(form, 500, "Failed to extract ZIP")
                       /\ UNCHANGED configFile
                  ELSE UploadFinish(scan_id, form, upload_type, target_dir)
       ELSE
          IF form.file = NoFile
          THEN /\ upload' = Rejected(form, 400, "No file provided")
               /\ UNCHANGED <<stagedDirs, zipFiles, configFile>>
          ELSE IF ~allowed_file(form.file)
          THEN /\ upload' = Rejected(form, 400, "File type not allowed")
               /\ UNCHANGED <<stagedDirs, zipFiles, configFile>>
          ELSE /\ stagedDirs' = stagedDirs \cup {scan_id}
               /\ UNCHANGED zipFiles
               /\ UploadFinish(scan_id, form, upload_type,
                               [dir |-> scan_id, file |-> secure_filename(form.file)])

\* the upload requests of the model
Form(type, url, file, tree, config, ok) ==
    [type |-> type, repository_url |-> url, file |-> file, tree |-> tree,
     config |-> config, staging_ok |-> ok]

PkgJson == [dir |-> Root, name |-> <<"package", ".", "json">>]
GoMod == [dir |-> <<"sub">>, name |-> <<"go", ".", "mod">>]
Dockerfile == [dir |-> Root, name |-> <<"Dockerfile">>]
NestedDockerfile == [dir |-> <<"sub">>, name |-> <<"Dockerfile">>]
MainPy == [dir |-> Root, name |-> <<"main", ".", "py">>]

Trees == { {NestedDockerfile}, {PkgJson, GoMod}, {Dockerfile, MainPy} }
Override == "{\"scanners\": {}}"
RepoUrl == "https://example/repo.git"
SrcZip == <<"src", ".", "zip">>

UploadForms ==
    {Form(type, RepoUrl, IF type = "zip" THEN SrcZip ELSE NoFile, tree, cfg, TRUE) :
        type \in {"repository", "zip"}, tree \in Trees, cfg \in {"absent", Override}}
    \cup {Form(type, RepoUrl, IF type = "zip" THEN SrcZip ELSE NoFile, {PkgJson, GoMod}, cfg, ok) :
        type \in {"repository", "zip"}, cfg \in {"{}", "{bad"}, ok \in BOOLEAN}
    \cup {Form("repository", "absent", NoFile, {}, "absent", TRUE)}
    \cup {Form("zip", "absent", file, {}, "absent", TRUE) : file \in {NoFile, <<>>}}
    \cup {Form("file", "absent", <<"main", ".", "py">>, {}, cfg, TRUE) :
        cfg \in {"absent", "{}", Override, "{bad"}}
    \cup {Form(type, "absent", file, {}, "absent", TRUE) :
        type \in {"file", "absent"},
        file \in {NoFile, <<"package", ".", "json">>, <<"notes", ".", "md">>, <<"app", ".", "PY">>}}

\* the upload that feeds the execution model
PlainForms == {Form("file", "absent", <<"main", ".", "py">>, {}, "absent", TRUE)}

UploadNext == \E s \in ScanIds, form \in UploadForms : upload_scan(s, form)

UploadSpec == Init /\ [][UploadNext]_vars

\* ---------------------------------------------------------------- execute
\* what the dispatcher can leave in a results directory
SemgrepFindings == [name |-> <<"semgrep", "-", "findings", ".", "json">>, size |-> 500]
ScanLog == [name |-> <<"scan", ".", "log">>, size |-> 20]
ArtifactFiles == {SemgrepFindings, ScanLog}
ExitCodes == {0, 1}

SummaryJson == <<"summary", ".", "json">>

\* what generate-summary.sh can leave at the summary path
GeneratedSummary == [py |-> "dict", items |-> {"metadata", "semgrep"}]
Garbage == [py |-> "not JSON"]
EmptyDict == [py |-> "dict", items |-> {}]

\* os.listdir of RESULTS_DIR/d
Listdir(d) ==
    {f.name : f \in artifacts[d]} \cup (IF summaryFile[d] # Absent THEN {SummaryJson} ELSE {})

\* lines 349-351, on the directory os.environ['RESULTS_DIR'] names
ResultsExist(d) ==
    /\ d \in resultsDirs
    /\ Cardinality({f \in Listdir(d) : EndsWithResultExt(f)}) > 0

\* the handler returns jsonify(...), status: its locals are gone, the response and the
\* scan id of the request remain
Return(t, resp) ==
    thr' = [thr EXCEPT ![t] = [IdleThread EXCEPT !.pc = "done", !.scan_id = thr[t].scan_id,
                                                 !.resp = resp]]

\* the configuration lookup is skipped
execute_begin_unchecked(t, scan_id) ==
    /\ thr[t].pc \in {"idle", "done"}
    /\ nexec < MaxExecs
    /\ nexec' = nexec + 1
    /\ thr' = [thr EXCEPT ![t] =
                  [IdleThread EXCEPT !.pc = "setenv", !.scan_id = scan_id,
                      !.config = configFile[scan_id]]]
    /\ executed' = IF configFile[scan_id] = Absent THEN executed ELSE executed \cup {scan_id}
    /\ UNCHANGED <<uploadVars, resultVars, environ, readVars>>

\* lines 230-238: the request arrives, the configuration is looked up and read
execute_begin(t, scan_id) ==
    /\ thr[t].pc \in {"idle", "done"}
    /\ nexec < MaxExecs
    /\ nexec' = nexec + 1
    /\ IF configFile[scan_id] = Absent
       THEN thr' = [thr EXCEPT ![t] =
                       [IdleThread EXCEPT !.pc = "done", !.scan_id = scan_id,
                           !.resp = [code |-> 404, error |-> "Scan not found or not configured"]]]
       ELSE thr' = [thr EXCEPT ![t] =
                       [IdleThread EXCEPT !.pc = "setenv", !.scan_id = scan_id,
                           !.config = configFile[scan_id]]]
    /\ executed' = IF configFile[scan_id] = Absent THEN executed ELSE executed \cup {scan_id}
    /\ UNCHANGED <<uploadVars, resultVars, environ, readVars>>

\* lines 241-242: the results directory and scan id go into the process environment
execute_setenv(t) ==
    /\ thr[t].pc = "setenv"
    /\ environ' = [RESULTS_DIR |-> thr[t].scan_id, SCAN_ID |-> thr[t].scan_id]
    /\ thr' = [thr EXCEPT ![t].pc = "mkdir"]
    /\ UNCHANGED <<uploadVars, resultVars, nexec, executed, readVars>>

\* lines 243-269: os.makedirs(os.environ['RESULTS_DIR']), then the dispatcher script is looked up
execute_makedirs(t, dispatcher_found) ==
    /\ thr[t].pc = "mkdir"
    /\ resultsDirs' = resultsDirs \cup {environ.RESULTS_DIR}
    /\ IF dispatcher_found
       THEN thr' = [thr EXCEPT ![t].pc = "spawn"]
       ELSE Return(t, [code |-> 500, error |-> "Dispatcher script not found"])
    /\ UNCHANGED <<uploadVars, artifacts, summaryFile, environ, nexec, executed, readVars>>

\* lines 271-290: chmod (errors swallowed), then subprocess.run starts the dispatcher
\* with env = {**os.environ, 'RESULTS_DIR': os.environ['RESULTS_DIR'], 'SCAN_ID': scan_id}
execute_spawn(t, chmod_ok) ==
    /\ thr[t].pc = "spawn"
    /\ chmod_ok \in BOOLEAN
    /\ thr' = [thr EXCEPT ![t].pc = "executing",
                          ![t].env = [RESULTS_DIR |-> environ.RESULTS_DIR,
                                      SCAN_ID |-> thr[t].scan_id]]
    /\ UNCHANGED <<uploadVars, resultVars, environ, nexec, executed, readVars>>

\* the dispatcher writes files into the directory its RESULTS_DIR names; a directory
\* that does not exist yet is created when something is written into it
DispatcherWrites(d, out) ==
    /\ artifacts' = [artifacts EXCEPT ![d] = @ \cup out]
    /\ resultsDirs' = IF out # {} THEN resultsDirs \cup {d} ELSE resultsDirs
    /\ UNCHANGED summaryFile

\* the dispatcher exits within the hour: subprocess.run returns
executor_exits(t, out, code) ==
    /\ thr[t].pc = "executing"
    /\ DispatcherWrites(thr[t].env.RESULTS_DIR, out)
    /\ thr' = [thr EXCEPT ![t].pc = "summary", ![t].returncode = code,
                          ![t].wrote = {o.name : o \in out}]
    /\ UNCHANGED <<uploadVars, environ, nexec, executed, readVars>>

\* the timeout is answered with a made-up outcome
executor_timeout_fabricates(t, out) ==
    /\ thr[t].pc = "executing"
    /\ DispatcherWrites(thr[t].env.RESULTS_DIR, out)
    /\ Return(t, [code |-> 200, scan_id |-> thr[t].scan_id, status |-> "failed",
                  exit_code |-> 1, results_generated |-> FALSE, summary |-> EmptyDict])
    /\ UNCHANGED <<uploadVars, environ, nexec, executed, readVars>>

\* lines 283-290, 365-366: the hour elapses, subprocess.run kills the dispatcher and
\* raises TimeoutExpired
executor_timeout(t, out) ==
    /\ thr[t].pc = "executing"
    /\ DispatcherWrites(thr[t].env.RESULTS_DIR, out)
    /\ Return(t, [code |-> 504, error |-> "Scan timeout"])
    /\ UNCHANGED <<uploadVars, environ, nexec, executed, readVars>>

\* result_file.split('-')[0] if '-' in result_file else "unknown"
ScannerName(name) ==
    IF "-" \in Range(name)
    THEN SubSeq(name, 1, (CHOOSE i \in DOMAIN name :
                            name[i] = "-" /\ \A j \in 1..(i - 1) : name[j] # "-") - 1)
    ELSE <<"unknown">>

\* os.path.getsize of a file of RESULTS_DIR/d
FileSize(d, name) ==
    IF \E f \in artifacts[d] : f.name = name
    THEN (CHOOSE f \in artifacts[d] : f.name = name).size
    ELSE 1

\* lines 318-337: the basic summary built from the result files of RESULTS_DIR/d; the
\* entries are keyed by scanner name, a later file of a scanner replacing an earlier one
\* (the files of the model have distinct scanner names)
BasicSummary(scan_id, status, d) ==
    LET result_files == IF d \in resultsDirs
                        THEN {f \in Listdir(d) : EndsWithResultExt(f)} ELSE {}
    IN  [py |-> "dict",
         items |-> {"metadata"},
         metadata |-> [scan_id |-> scan_id, status |-> status],
         entries |-> {[scanner |-> ScannerName(f), file |-> f, findings |-> 0,
                       size_bytes |-> FileSize(d, f)] : f \in result_files}]

\* lines 292-340: the summary script is looked up; found, it is made executable and
\* started (no timeout); not found, the basic summary is built and written, which reads
\* the local `status` that is only assigned at line 353: UnboundLocalError
execute_summary(t, script_found, chmod_ok) ==
    /\ thr[t].pc = "summary"
    /\ IF script_found
       THEN /\ IF chmod_ok
               THEN thr' = [thr EXCEPT ![t].pc = "summarizing",
                                       ![t].summary_path = environ.RESULTS_DIR]
               ELSE Return(t, [code |-> 500, error |-> "PermissionError"])
            /\ UNCHANGED summaryFile
       ELSE IF thr[t].status = Unbound
            THEN /\ Return(t, [code |-> 500, error |-> "UnboundLocalError"])
                 /\ UNCHANGED summaryFile
            ELSE /\ summaryFile' =
                       [summaryFile EXCEPT ![environ.RESULTS_DIR] =
                           BasicSummary(thr[t].scan_id, thr[t].status, environ.RESULTS_DIR)]
                 /\ thr' = [thr EXCEPT ![t].pc = "read",
                                       ![t].summary_path = environ.RESULTS_DIR,
                                       ![t].wrote = @ \cup {SummaryJson}]
    /\ UNCHANGED <<uploadVars, resultsDirs, artifacts, environ, nexec, executed, readVars>>

\* generate-summary.sh exits, having written a summary, something unparseable, or
\* nothing, at the summary path it was given
generator_exits(t, written) ==
    /\ thr[t].pc = "summarizing"
    /\ summaryFile' = IF written # Absent /\ thr[t].summary_path \in resultsDirs
                      THEN [summaryFile EXCEPT ![thr[t].summary_path] = written]
                      ELSE summaryFile
    /\ thr' = [thr EXCEPT ![t].pc = "read",
                          ![t].wrote = IF written # Absent /\ thr[t].summary_path \in resultsDirs
                                       THEN @ \cup {SummaryJson} ELSE @]
    /\ UNCHANGED <<uploadVars, resultsDirs, artifacts, environ, nexec, executed, readVars>>

\* the handler records the outcome in the scan's configuration file
execute_respond_records(t) ==
    LET d == thr[t].summary_path
        exists == d \in resultsDirs /\ summaryFile[d] # Absent
        summary == IF exists THEN summaryFile[d] ELSE EmptyDict
        results_exist == ResultsExist(environ.RESULTS_DIR)
        status == IF thr[t].returncode = 0 \/ results_exist THEN "completed" ELSE "failed"
    IN
    /\ thr[t].pc = "read"
    /\ IF summary = Garbage
       THEN Return(t, [code |-> 500, error |-> "JSONDecodeError"])
       ELSE Return(t, [code |-> 200, scan_id |-> thr[t].scan_id, status |-> status,
                       exit_code |-> thr[t].returncode, results_generated |-> results_exist,
                       summary |-> summary])
    /\ configFile' = [configFile EXCEPT ![thr[t].scan_id] = [@ EXCEPT !.auto_detect = FALSE]]
    /\ UNCHANGED <<minted, stagedDirs, zipFiles, upload, resultVars, environ, nexec, executed,
                   readVars>>

\* lines 342-363: the summary is read back, the outcome is classified and returned
execute_respond(t) ==
    LET d == thr[t].summary_path
        exists == d \in resultsDirs /\ summaryFile[d] # Absent
        summary == IF exists THEN summaryFile[d] ELSE EmptyDict
        results_exist == ResultsExist(environ.RESULTS_DIR)
        status == IF thr[t].returncode = 0 \/ results_exist THEN "completed" ELSE "failed"
    IN
    /\ thr[t].pc = "read"
    /\ IF summary = Garbage
       THEN Return(t, [code |-> 500, error |-> "JSONDecodeError"])
       ELSE Return(t, [code |-> 200, scan_id |-> thr[t].scan_id, status |-> status,
                       exit_code |-> thr[t].returncode, results_generated |-> results_exist,
                       summary |-> summary])
    /\ UNCHANGED <<uploadVars, resultVars, environ, nexec, executed, readVars>>

\* the existence check of the results directory is missing
get_results_unchecked(scan_id) ==
    [code |-> 200, scan_id |-> scan_id,
     results |-> {[file |-> f.name, size |-> f.size] : f \in artifacts[scan_id]}]

\* GET /api/v1/scan/<scan_id>/results
get_results(scan_id) ==
    IF scan_id \notin resultsDirs
    THEN [code |-> 404, error |-> "Results not found"]
    ELSE [code |-> 200, scan_id |-> scan_id,
          results |-> {[file |-> f.name, size |-> f.size] : f \in artifacts[scan_id]}
                      \cup (IF summaryFile[scan_id] # Absent
                            THEN {[file |-> SummaryJson, size |-> 1]} ELSE {})]

\* ------------------------------------------------------------- list_scans
\* line 151: str(uuid.uuid4()), the name of the scan's directories; the strings do not
\* follow the order in which the ids are minted
Hex == <<"0", "1", "2", "3", "4", "5", "6", "7", "8", "9", "a", "b", "c", "d", "e", "f">>
uuid(s) == <<Hex[((s * 11) % 16) + 1], Hex[(s % 16) + 1]>>

\* the code point order of the characters of a name
Ord(c) == CHOOSE i \in DOMAIN Hex : Hex[i] = c

\* a < b on Python strings
StrLess(a, b) ==
    \E i \in 1..(Len(b)) :
        /\ \A j \in 1..(i - 1) : j <= Len(a) /\ a[j] = b[j]
        /\ \/ i = Len(a) + 1
           \/ i <= Len(a) /\ Ord(a[i]) < Ord(b[i])

\* what a summary.json can hold besides a generated summary and text that is not JSON:
\* a file that cannot be opened, the JSON document 5, the JSON document []
Unreadable == [py |-> "unreadable"]
JsonNumber == [py |-> "int"]
JsonList == [py |-> "list", items |-> {}]

ParseError == [py |-> "dict", items |-> {"error"}, error |-> "Failed to parse summary"]

\* lines 445-452: the summary of RESULTS_DIR/d as the listing loads it
LoadedSummary(d) ==
    IF summaryFile[d] = Absent THEN EmptyDict
    ELSE IF summaryFile[d] \in {Garbage, Unreadable} THEN ParseError
    ELSE summaryFile[d]

\* line 476: `"metadata" in summary` raises TypeError unless summary is a container
MembershipRaises(summary) == summary.py \notin {"dict", "list"}

\* lines 455-464
ResultFiles(d) ==
    {[file |-> f, size |-> FileSize(d, f)] : f \in {g \in Listdir(d) : EndsWithResultExt(g)}}

\* lines 466-477: the record of one scan directory
ScanInfo(d) ==
    LET summary == LoadedSummary(d)
    IN  [py |-> "dict",
         items |-> {"scan_id", "summary", "result_files", "result_count", "has_summary"}
                   \cup (IF "metadata" \in summary.items THEN {"metadata"} ELSE {}),
         scan_id |-> uuid(d),
         summary |-> summary,
         result_files |-> ResultFiles(d),
         result_count |-> Cardinality(ResultFiles(d)),
         has_summary |-> summaryFile[d] # Absent]

\* line 482: scans.sort(key=scan_id, reverse=True), the scan ids being distinct
RECURSIVE SortDesc(_)
SortDesc(dirs) ==
    IF dirs = {} THEN <<>>
    ELSE LET top == CHOOSE d \in dirs : \A e \in dirs \ {d} : StrLess(uuid(e), uuid(d))
         IN  <<ScanInfo(top)>> \o SortDesc(dirs \ {top})

\* line 439: os.listdir(RESULTS_DIR)
Entries ==
    {[name |-> uuid(d), isdir |-> TRUE, dir |-> d] : d \in resultsDirs}
    \cup {[name |-> n, isdir |-> FALSE, dir |-> 0] : n \in strays}

\* lines 440-442: the entries that are not directories are skipped
ScanDirs == {e.dir : e \in {x \in Entries : x.isdir}}

\* GET /api/v1/scans, lines 432-487: the entries of RESULTS_DIR that are directories,
\* one record each; an exception raised for any of them is answered with 500
list_scans ==
    IF \E d \in ScanDirs : MembershipRaises(LoadedSummary(d))
    THEN [code |-> 500, error |-> "TypeError"]
    ELSE [code |-> 200, scans |-> SortDesc(ScanDirs)]

\* a client requests the listing
ListRequest ==
    /\ listing' = list_scans
    /\ UNCHANGED <<uploadVars, resultVars, environ, thr, nexec, executed, strays, insp>>

\* ---------------------------------------------------------- specifications
ThreadStep(t) ==
    \/ \E s \in ScanIds : execute_begin(t, s)
    \/ execute_setenv(t)
    \/ \E found \in BOOLEAN : execute_makedirs(t, found)
    \/ \E ok \in BOOLEAN : execute_spawn(t, ok)
    \/ \E out \in SUBSET ArtifactFiles : executor_timeout(t, out)
    \/ \E found \in BOOLEAN, ok \in BOOLEAN : execute_summary(t, found, ok)
    \/ execute_respond(t)

ProcessExit(t) ==
    \/ \E out \in SUBSET ArtifactFiles, code \in ExitCodes : executor_exits(t, out, code)
    \/ \E written \in {GeneratedSummary, Garbage, Absent} : generator_exits(t, written)

Next ==
    \/ \E s \in ScanIds, form \in PlainForms : upload_scan(s, form)
    \/ \E t \in Threads : ThreadStep(t)
    \/ \E t \in Threads : ProcessExit(t)

Spec == Init /\ [][Next]_vars

\* the steps of the handler that the server takes by itself, and the timer of subprocess.run
HandlerStep(t) ==
    \/ execute_setenv(t)
    \/ \E found \in BOOLEAN : execute_makedirs(t, found)
    \/ \E ok \in BOOLEAN : execute_spawn(t, ok)
    \/ \E out \in SUBSET ArtifactFiles : executor_timeout(t, out)
    \/ \E found \in BOOLEAN, ok \in BOOLEAN : execute_summary(t, found, ok)
    \/ execute_respond(t)

\* the server handling one request at a time: uploads, and executes that each return
\* before the next begins
SequentialNext ==
    \/ \E s \in ScanIds, form \in PlainForms : upload_scan(s, form)
    \/ ThreadStep(1)
    \/ ProcessExit(1)

SequentialSpec == Init /\ [][SequentialNext]_vars

\* the path is recorded, the flag is left alone
DepIteration_listonly(tree, pattern, detected) ==
    IF Rglob(tree, pattern) = {}
    THEN detected
    ELSE [detected EXCEPT !.dependency_files = Append(@, FirstMatch(Rglob(tree, pattern)))]

\* lines 84-88, one iteration of the outer loop: the first path rglob yields for the
\* pattern, if there is one, is recorded and the flag is set
DepIteration(tree, pattern, detected) ==
    IF Rglob(tree, pattern) = {}
    THEN detected
    ELSE [detected EXCEPT !.dependency_files = Append(@, FirstMatch(Rglob(tree, pattern))),
                          !.has_dependencies = TRUE]

\* lines 60-71: the accumulator when the loop over dep_patterns is entered
InspectStart(tree) ==
    [tree |-> tree, pc |-> "deps", i |-> 1,
     detected |-> [languages |-> <<>>,
                   has_dockerfile |->
                       \E p \in tree : /\ p.dir = Root
                                       /\ p.name \in {<<"Dockerfile">>,
                                                      <<"docker", "-", "compose", ".", "yml">>},
                   has_dependencies |-> FALSE,
                   dependency_files |-> <<>>]]

\* lines 84-88: the loop takes the next pattern of the catalog
inspect_dep_pattern ==
    /\ insp.pc = "deps"
    /\ insp.i <= Len(dep_patterns)
    /\ insp' = [insp EXCEPT !.i = @ + 1,
                            !.detected = DepIteration(insp.tree, dep_patterns[insp.i], @)]
    /\ UNCHANGED <<uploadVars, resultVars, environ, thr, nexec, executed, strays, listing>>

\* lines 90-106: the catalog is exhausted, the languages are detected, the result returned
inspect_return ==
    /\ insp.pc = "deps"
    /\ insp.i > Len(dep_patterns)
    /\ insp' = [insp EXCEPT !.pc = "returned",
                            !.detected.languages = LangLoop(insp.tree, 1, <<>>)]
    /\ UNCHANGED <<uploadVars, resultVars, environ, thr, nexec, executed, strays, listing>>

\* the staged trees that are inspected
SubPkgJson == [dir |-> <<"sub">>, name |-> <<"package", ".", "json">>]
GemfileLock == [dir |-> Root, name |-> <<"Gemfile", ".", "lock">>]
InspectTrees == SUBSET {PkgJson, SubPkgJson, GoMod, GemfileLock, Dockerfile, MainPy}

InspectInit ==
    /\ minted = {}
    /\ stagedDirs = {}
    /\ zipFiles = {}
    /\ configFile = [s \in ScanIds |-> Absent]
    /\ upload = [form |-> None, resp |-> None]
    /\ resultsDirs = {}
    /\ artifacts = [s \in ScanIds |-> {}]
    /\ summaryFile = [s \in ScanIds |-> Absent]
    /\ environ = [RESULTS_DIR |-> NoEnv, SCAN_ID |-> NoEnv]
    /\ thr = [t \in Threads |-> IdleThread]
    /\ nexec = 0
    /\ executed = {}
    /\ strays = {}
    /\ listing = None
    /\ insp \in {InspectStart(tree) : tree \in InspectTrees}

InspectNext == inspect_dep_pattern \/ inspect_return

InspectSpec == InspectInit /\ [][InspectNext]_vars

\* the files that are put into RESULTS_DIR itself
StrayNames == {<<"f", "0">>}
SummaryContents == {Absent, GeneratedSummary, Garbage, Unreadable, JsonNumber, JsonList}

\* the results root as a listing can find it: directories of scans with whatever the
\* scanner scripts left in them, and files next to them
ListInit ==
    /\ minted = {}
    /\ stagedDirs = {}
    /\ zipFiles = {}
    /\ configFile = [s \in ScanIds |-> Absent]
    /\ upload = [form |-> None, resp |-> None]
    /\ resultsDirs \in SUBSET ScanIds
    /\ artifacts \in [ScanIds -> SUBSET ArtifactFiles]
    /\ summaryFile \in [ScanIds -> SummaryContents]
    /\ \A s \in ScanIds \ resultsDirs : artifacts[s] = {} /\ summaryFile[s] = Absent
    /\ environ = [RESULTS_DIR |-> NoEnv, SCAN_ID |-> NoEnv]
    /\ thr = [t \in Threads |-> IdleThread]
    /\ nexec = 0
    /\ executed = {}
    /\ strays \in SUBSET StrayNames
    /\ listing = None
    /\ insp = None

ListSpec == ListInit /\ [][ListRequest]_vars

\* every thread keeps running and every armed timeout fires; nothing makes an external
\* process exit
LiveSpec == Init /\ [][Next]_vars /\ \A t \in Threads : WF_vars(HandlerStep(t))

\* ------------------------------------------------------------------ claims
Active(t) == thr[t].pc \notin {"idle", "done"}

\* the result artifacts the dispatcher has left in the results directory of scan s
ResultArtifacts(s) == {f \in artifacts[s] : EndsWithResultExt(f.name)}

\* thread t returns from a request whose dispatcher has exited
ReturnsAfterRun(t) == thr[t].pc \in {"summary", "read"} /\ thr'[t].pc = "done"

\* C1: whenever the dispatcher has exited, execute returns an outcome whose status is
\* completed if the exit code is 0 or the scan's results directory holds at least one
\* result artifact, and failed otherwise.
OutcomeClassification ==
    [][\A t \in Threads : ReturnsAfterRun(t) =>
          /\ thr'[t].resp.code = 200
          /\ thr'[t].resp.status =
                IF thr[t].returncode = 0 \/ ResultArtifacts(thr[t].scan_id) # {}
                THEN "completed" ELSE "failed"]_vars

\* C2: whenever the dispatcher has exited and the scan has no summary artifact when
\* execute returns, execute returns a normal outcome that carries a synthesized summary
\* (one with the metadata entry of lines 318-324).
MissingSummaryNotFatal ==
    [][\A t \in Threads :
          (ReturnsAfterRun(t) /\ summaryFile'[thr[t].scan_id] = Absent) =>
              /\ thr'[t].resp.code = 200
              /\ "metadata" \in thr'[t].resp.summary.items]_vars

\* C3: while execute calls run for distinct scan ids, the dispatcher started for scan s
\* has RESULTS_DIR = RESULTS_DIR/s and SCAN_ID = s in its environment.
DistinctScanIds ==
    \A t, u \in Threads : (t # u /\ thr[t].pc # "idle" /\ thr[u].pc # "idle")
                             => thr[t].scan_id # thr[u].scan_id
ExecutorGetsOwnResultsDir ==
    DistinctScanIds =>
        \A t \in Threads : thr[t].pc = "executing" =>
            thr[t].env = [RESULTS_DIR |-> thr[t].scan_id, SCAN_ID |-> thr[t].scan_id]

\* C4: when the dispatcher exceeds the timeout, execute answers 504 "Scan timeout" and
\* nothing else: the response has no exit code, status or summary, and no summary file
\* is written by that step; the request is over.
TimeoutYieldsNoOutcome ==
    [][\A t \in Threads :
          (thr[t].pc = "executing" /\ thr'[t].pc \notin {"executing", "summary"}) =>
              /\ thr'[t].pc = "done"
              /\ thr'[t].resp = [code |-> 504, error |-> "Scan timeout"]
              /\ summaryFile' = summaryFile]_vars
TimedOutWitness ==
    \E t \in Threads : /\ thr[t].pc = "done"
                       /\ thr[t].resp.code = 504
                       /\ artifacts[thr[t].scan_id] # {}
                       /\ summaryFile[thr[t].scan_id] = Absent

\* the latest upload was accepted and its configuration was synthesized, not an override
Uploaded == upload.resp # None /\ upload.resp.code = 201
Synthesized == Uploaded /\ "scan_scope" \in upload.resp.config.items

\* C5: in a synthesized configuration scan_scope.type is single_file exactly when the
\* upload type is file, and full for zip and repository uploads.
ScopeFollowsIngestionMode ==
    Synthesized =>
        upload.resp.config.scan_scope.type =
            IF FormType(upload.form) = "file" THEN "single_file" ELSE "full"

\* C6: every well-formed override document supplied at upload time, the empty document
\* included, is the configuration that upload persists and returns.
OverrideLaw ==
    (Uploaded /\ upload.form.config # "absent") =>
        /\ upload.resp.config = json_loads(upload.form.config)
        /\ configFile[upload.resp.scan_id] = json_loads(upload.form.config)

\* a dependency manifest, a container manifest, is present where the inspector looks
HasDependencyManifest(tree) ==
    \E p \in tree, i \in DOMAIN dep_patterns : p.name = dep_patterns[i]
HasContainerManifest(tree) ==
    \E p \in tree : p.dir = Root /\ p.name \in {<<"Dockerfile">>,
                                                <<"docker", "-", "compose", ".", "yml">>}

AlwaysOnToggles(config) ==
    /\ config.scanners.semgrep.enabled
    /\ config.scanners.codeql.enabled
    /\ config.scanners.gitleaks.enabled

\* C7 as stated: for every upload without an override, the dependency-scanner toggle is
\* enabled iff a dependency manifest was found in the staged content, the container-scanner
\* toggle iff a container manifest was found, and the static-analysis and secret-scanning
\* toggles are enabled.
DerivationLawAllUploads ==
    (Uploaded /\ upload.form.config = "absent") =>
        /\ upload.resp.config.scanners.osv_scanner.enabled
              = HasDependencyManifest(StagedTree(upload.form))
        /\ upload.resp.config.scanners.trivy.enabled
              = HasContainerManifest(StagedTree(upload.form))
        /\ AlwaysOnToggles(upload.resp.config)

\* C7 amended: for every zip or repository upload without an override, the persisted
\* configuration's dependency-scanner toggle is enabled iff a dependency manifest was found
\* in the staged content and its container-scanner toggle iff a container manifest was
\* found; for a single-file upload without an override, which is not inspected, both
\* toggles are enabled; the static-analysis and secret-scanning toggles are enabled in both.
DerivationLaw ==
    (Uploaded /\ upload.form.config = "absent") =>
        LET config == configFile[upload.resp.scan_id]
            inspected == FormType(upload.form) \in {"zip", "repository"}
        IN  /\ config = upload.resp.config
            /\ config.scanners.osv_scanner.enabled
                  = (inspected => HasDependencyManifest(upload.form.tree))
            /\ config.scanners.trivy.enabled
                  = (inspected => HasContainerManifest(upload.form.tree))
            /\ AlwaysOnToggles(config)
DerivationWitness ==
    /\ Uploaded
    /\ upload.form.config = "absent"
    /\ FormType(upload.form) = "zip"
    /\ upload.resp.config.scanners.osv_scanner.enabled
    /\ ~upload.resp.config.scanners.trivy.enabled

\* C8: every execute call that has been accepted eventually returns a response.
ExecuteReturns ==
    \A t \in Threads : Active(t) ~> (thr[t].pc = "done")

\* thread t takes a new execute request in this step
Accepts(t) ==
    /\ nexec' = nexec + 1
    /\ thr[t].pc \in {"idle", "done"}
    /\ \A u \in Threads \ {t} : thr'[u] = thr[u]
    /\ thr'[t].scan_id \in ScanIds

\* C9: an execute request for a scan id without a persisted configuration is answered
\* 404 at once: the dispatcher is not started, nothing under RESULTS_DIR and nothing in
\* the environment changes, and the results endpoint still answers 404 for that scan id.
NotFoundHasNoEffect ==
    [][\A t \in Threads :
          (Accepts(t) /\ configFile[thr'[t].scan_id] = Absent) =>
              /\ thr'[t].pc = "done"
              /\ thr'[t].resp.code = 404
              /\ UNCHANGED <<resultsDirs, artifacts, summaryFile, environ>>
              /\ \A s \in ScanIds : s = thr'[t].scan_id => get_results(s)'.code = 404]_vars
NotFoundWitness ==
    \E t \in Threads : /\ thr[t].pc = "done"
                       /\ thr[t].resp.code = 404
                       /\ configFile[thr[t].scan_id] = Absent
                       /\ resultsDirs # {}

\* C10: a scan that was uploaded and never executed has a configuration and no results,
\* whatever other scans were uploaded and executed: the results endpoint answers 404 for
\* it; and an upload never returns a scan id an earlier upload was given.
UnexecutedHasNoResults ==
    [][/\ \A s \in ScanIds :
             (configFile'[s] # Absent /\ s \notin executed') => get_results(s)'.code = 404
       /\ (minted' # minted /\ upload'.resp.code = 201) =>
             /\ upload'.resp.scan_id \notin minted
             /\ configFile[upload'.resp.scan_id] = Absent]_vars
UnexecutedWitness ==
    \E s \in ScanIds : /\ configFile[s] # Absent
                       /\ s \notin executed
                       /\ get_results(s).code = 404
                       /\ \E r \in ScanIds \ {s} : /\ r \in executed
                                                  /\ get_results(r).code = 200
                                                  /\ artifacts[r] # {}

\* C11: when execute returns after the dispatcher has exited and the scan has no summary
\* artifact, the summary it returns is synthesized from the result files of the scan's
\* results directory: one entry per scanner name (the text before the first "-" of the
\* file name), with the file name, its size and a finding count of zero.
FallbackSummaryContent ==
    [][\A t \in Threads :
          (ReturnsAfterRun(t) /\ summaryFile'[thr[t].scan_id] = Absent) =>
              /\ thr'[t].resp.code = 200
              /\ "entries" \in DOMAIN thr'[t].resp.summary
              /\ thr'[t].resp.summary.entries =
                    {[scanner |-> ScannerName(f.name), file |-> f.name, findings |-> 0,
                      size_bytes |-> f.size] : f \in ResultArtifacts(thr[t].scan_id)}]_vars

\* C12: when an execute returns an outcome, the returned status and summary and the
\* persisted summary describe that execution only: the status is completed only on exit
\* code 0 or when this execution wrote a result file, and a summary is returned or
\* persisted only if this execution wrote it, whatever an earlier execution of the same
\* scan left in the results directory.
RerunDescribesItselfOnly ==
    [][\A t \in Threads :
          (thr[t].pc = "read" /\ thr'[t].pc = "done" /\ thr'[t].resp.code = 200) =>
              LET own == {f \in thr[t].wrote : EndsWithResultExt(f)}
              IN  /\ thr'[t].resp.status =
                        IF thr[t].returncode = 0 \/ own # {} THEN "completed" ELSE "failed"
                  /\ thr'[t].resp.summary # EmptyDict => SummaryJson \in thr[t].wrote
                  /\ summaryFile'[thr[t].scan_id] # Absent => SummaryJson \in thr[t].wrote]_vars

\* the listing has been answered
Listed == listing # None

\* the record of scan directory d in a listing that succeeded
RecordOf(d) ==
    {i \in 1..Len(listing.scans) : listing.scans[i].scan_id = uuid(d)}

\* a summary file that is unreadable, not parseable, or parseable but not a JSON object
BadSummary(d) == summaryFile[d] \notin {Absent, GeneratedSummary}

\* C13: whatever a scan's summary file holds (nothing, something unreadable, something
\* not parseable, something parseable but not of the expected shape), the listing
\* succeeds, has a record for every scan directory, and carries an error marker in the
\* records of the scans with a bad summary only.
ListingSurvivesAnySummary ==
    Listed =>
        /\ listing.code = 200
        /\ \A d \in resultsDirs :
              /\ RecordOf(d) # {}
              /\ \A i \in RecordOf(d) :
                    ("error" \in listing.scans[i].summary.items) <=> BadSummary(d)

\* C15: the listing has exactly one record for each subdirectory of the results root,
\* none for an entry that is not a directory, and the records are in descending
\* lexicographic order of the scan id strings.
ListingIsTheDirectoriesDescending ==
    Listed =>
        /\ listing.code = 200
        /\ Len(listing.scans) = Cardinality(resultsDirs)
        /\ \A d \in resultsDirs : Cardinality(RecordOf(d)) = 1
        /\ \A i \in 1..Len(listing.scans) : listing.scans[i].scan_id \notin strays
        /\ \A i, j \in 1..Len(listing.scans) :
              i < j => StrLess(listing.scans[j].scan_id, listing.scans[i].scan_id)

\* thread t serves an execute whose dispatcher has been started
Invoked(t) ==
    \/ thr[t].pc \in {"executing", "summary", "summarizing", "read"}
    \/ /\ thr[t].pc = "done"
       /\ \/ thr[t].resp.code \in {200, 504}
          \/ thr[t].resp.code = 500 /\ thr[t].resp.error # "Dispatcher script not found"

\* the results endpoint knows scan s and the listing has a record for it
Queryable(s) ==
    /\ get_results(s).code # 404
    /\ list_scans.code = 200
    /\ \E i \in 1..Len(list_scans.scans) : list_scans.scans[i].scan_id = uuid(s)

\* C14: once an execute of a configured scan has started the dispatcher, whatever
\* becomes of the run and however it interleaves with executes of other scans, the scan
\* is queryable: its results are not answered 404 and the listing has a record for it.
InvokedScanIsQueryable ==
    \A t \in Threads : Invoked(t) => Queryable(thr[t].scan_id)

\* the summary an execute of scan s would read from the scan's own results directory
OwnSummary(s) ==
    IF s \in resultsDirs /\ summaryFile[s] # Absent THEN summaryFile[s] ELSE EmptyDict

\* C16: while executes run for distinct scan ids, however they interleave, the execute
\* of scan s has its summary written to RESULTS_DIR/s/summary.json only, and the
\* summary, results_generated and status it returns are derived from RESULTS_DIR/s only.
ExecuteStaysInOwnResultsDir ==
    [][DistinctScanIds =>
          \A t \in Threads :
              /\ (thr[t].pc \in {"summary", "summarizing"} /\ thr'[t].pc = "read") =>
                    \A d \in ScanIds : summaryFile'[d] # summaryFile[d] => d = thr[t].scan_id
              /\ (thr[t].pc = "read" /\ thr'[t].pc = "done" /\ thr'[t].resp.code = 200) =>
                    /\ thr'[t].resp.summary = OwnSummary(thr[t].scan_id)
                    /\ thr'[t].resp.results_generated = ResultsExist(thr[t].scan_id)
                    /\ thr'[t].resp.status =
                          IF thr[t].returncode = 0 \/ ResultsExist(thr[t].scan_id)
                          THEN "completed" ELSE "failed"]_vars

\* C17: making a script executable is best effort, for the dispatcher and for the
\* summary generator alike: when chmod fails the script is started all the same and the
\* execute does not answer with an error because of it.
ChmodIsBestEffort ==
    [][\A t \in Threads :
          /\ (thr[t].pc = "spawn" /\ thr'[t] # thr[t]) => thr'[t].pc = "executing"
          /\ (thr[t].pc = "summary" /\ thr'[t].pc = "done") =>
                thr'[t].resp.error # "PermissionError"]_vars

\* C18: a persisted configuration never changes after its upload: no step modifies or
\* removes a scan-config.json that exists, the configuration an upload returns is the
\* one persisted for its scan, and the configuration a running execute of scan s holds
\* is the persisted one of s.
ConfigIsImmutable ==
    [][/\ \A s \in ScanIds : configFile[s] # Absent => configFile'[s] = configFile[s]
       /\ (upload'.resp # None /\ upload'.resp.code = 201) =>
             configFile'[upload'.resp.scan_id] = upload'.resp.config
       /\ \A t \in Threads :
             thr'[t].config # None => thr'[t].config = configFile'[thr'[t].scan_id]]_vars
ConfigIsImmutableWitness ==
    \E t \in Threads :
        /\ thr[t].pc = "done" /\ thr[t].resp.code = 200
        /\ \E u \in Threads : thr[u].pc = "read" /\ thr[u].scan_id = thr[t].scan_id
                               /\ thr[u].config = configFile[thr[u].scan_id]
        /\ Uploaded /\ upload.resp.scan_id # thr[t].scan_id

\* C19: at every pass of the inspection loop over the catalog of manifest names (before
\* the first pattern, after each pattern) and in the result that is returned,
\* has_dependencies is true if and only if dependency_files is not empty; the returned
\* result is the one inspect_repository computes for the tree.
FlagIffManifestPaths ==
    insp # None =>
        /\ insp.detected.has_dependencies <=> (Len(insp.detected.dependency_files) > 0)
        /\ insp.pc = "returned" => insp.detected = inspect_repository(insp.tree)
FlagIffManifestPathsWitness ==
    /\ insp # None
    /\ insp.pc = "deps"
    /\ insp.i <= Len(dep_patterns)
    /\ Len(insp.detected.dependency_files) = 2
    /\ insp.detected.has_dependencies
    /\ Rglob(insp.tree, dep_patterns[insp.i]) # {}

\* C20: an upload that is rejected with a client error (no repository_url, no file or
\* an empty file name, a file type that is not allowed, an override that is not JSON)
\* leaves the upload directory as it was: no staging directory, archive or
\* configuration exists for the scan id the call minted.
RejectedUploadLeavesNothing ==
    [][(minted' # minted /\ upload'.resp.code = 400) =>
          /\ UNCHANGED <<stagedDirs, zipFiles, configFile>>
          /\ \A s \in minted' \ minted :
                s \notin stagedDirs' /\ s \notin zipFiles' /\ configFile'[s] = Absent]_vars

====
